---------------------------- MODULE Spec2Model ----------------------------
(***************************************************************************)
(* The prose repair retry block that _fix_orchestrator.py inserts into     *)
(* mystery-orchestrator.ts (repair_block, lines 20-114 of the script),     *)
(* modelled as a state machine of one pipeline run.  The two awaited calls *)
(* (generateProse, validationPipeline.validate) are the suspension points; *)
(* each may return a value or throw.                                       *)
(***************************************************************************)
EXTENDS Integers, Sequences, FiniteSets, TLC

(* ------------------------------ bounds -------------------------------- *)

MaxErrors == 2

MaxCritical == 1

MaxChapters == 1

MaxStoryChapters == 2

MaxSegments == 3

MaxApplications == 2

(* --------------------------- input domains ---------------------------- *)

SeqsUpTo(S, n) == UNION {[1..k -> S] : k \in 0..n}

\* e.type values the validation engine can emit: the four recoverable ones
\* and one the block never names.
ErrorTypes ==
  {"missing_discriminating_test", "cml_test_not_realized",
   "suspect_closure_missing", "culprit_evidence_chain_missing",
   "unrelated_format_issue"}

\* Types appearing in the report of the second validate call.
RevalidationErrorTypes == {"suspect_closure_missing"}

Statuses == {"passed", "failed"}

ReportsOver(types) ==
  [status : Statuses,
   summary : [critical : 0..MaxCritical],
   errors : SeqsUpTo([type : types], MaxErrors)]

ValidationReports == ReportsOver(ErrorTypes)

RevalidationReports == ReportsOver(RevalidationErrorTypes)

Titles == {"T"}

\* ch.paragraphs: one paragraph, or two
ParagraphSeqs == {<<"a">>, <<"a", "b">>}

Chapters == [title : Titles, paragraphs : ParagraphSeqs]

ChapterSeqs == SeqsUpTo(Chapters, MaxChapters)

\* repairedProse.cost
Costs == {0, 1}

\* Date.now() - start, in ticks
Elapsed == {2}

\* what generateProse resolves to: {chapters, cost}
RawProses == [chapters : ChapterSeqs, cost : Costs]

\* Inputs of the story projection taken on its own: chapters with two
\* titles and with no, one, two or three paragraphs, one of them empty.
StoryTitles == {"T", "U"}

StoryParagraphSeqs == {<<>>, <<"a">>, <<"a", "b">>, <<"b", "", "a">>}

StoryRawProses ==
  [chapters : SeqsUpTo([title : StoryTitles, paragraphs : StoryParagraphSeqs],
                       MaxStoryChapters),
   cost : {0}]

\* the prose the pipeline holds when the block is entered
InitialProses == {[chapters |-> <<[title |-> "T", paragraphs |-> <<"a">>]>>]}

(* ---------------------- JS objects used as maps ----------------------- *)

EmptyMap == [k \in {} |-> 0]

\* (m[k] || 0)
OrZero(m, k) == IF k \in DOMAIN m THEN m[k] ELSE 0

\* m[k] = v
Put(m, k, v) == [x \in (DOMAIN m) \cup {k} |-> IF x = k THEN v ELSE m[x]]

\* variant: the counter is assigned, as line 21 does, instead of added to
accumulate_Reset(m, k, v) == Put(m, k, v)

\* m[k] = (m[k] || 0) + v
accumulate(m, k, v) == Put(m, k, OrZero(m, k) + v)

\* What the run holds when the block is entered: a run with no warning, no
\* error and no agent9_prose counter yet, and a run that has all three.  In both, line 21
\* has stored the duration of the first validate call.
RunContexts ==
  {[warnings |-> <<>>,
    errors |-> <<>>,
    agentCosts |-> EmptyMap,
    agentDurations |-> Put(EmptyMap, "validation", 1)],
   [warnings |-> <<"earlier pipeline warning">>,
    errors |-> <<"earlier pipeline error">>,
    agentCosts |-> Put(EmptyMap, "agent9_prose", 1),
    agentDurations |-> Put(Put(EmptyMap, "agent9_prose", 1), "validation", 2)]}

(* ------------------------- the block's pieces ------------------------- *)

\* variant: the last member of the set left out
recoverableErrorTypes_ThreeTypes ==
  {"missing_discriminating_test", "cml_test_not_realized",
   "suspect_closure_missing"}

recoverableErrorTypes ==
  {"missing_discriminating_test", "cml_test_not_realized",
   "suspect_closure_missing", "culprit_evidence_chain_missing"}

\* variant: any error at all counts as a recoverable gap
hasRecoverableGapsOf_AnyError(report) == Len(report.errors) > 0

\* errors.some((e) => recoverableErrorTypes.has(e.type))
hasRecoverableGapsOf(report) ==
  \E i \in 1..Len(report.errors) : report.errors[i].type \in recoverableErrorTypes

GuardrailA1 ==
  "Include a clear discriminating test scene where multiple plausible suspects are explicitly evaluated and at least one suspect is ruled out using on-page evidence."

GuardrailA2 ==
  "Use explicit elimination language such as 'ruled out', 'cannot be the culprit', or 'excluded by the timeline/evidence'."

GuardrailB1 ==
  "In the solution sequence, close every major suspect thread with explicit reasoning and evidence-backed elimination."

GuardrailB2 ==
  "Provide a complete culprit evidence chain from clue discovery to final proof without relying on off-page information."

isClusterA(e) ==
  e.type = "missing_discriminating_test" \/ e.type = "cml_test_not_realized"

\* variant: the second type of the cluster left out of the test
isClusterB_ClosureOnly(e) == e.type = "suspect_closure_missing"

isClusterB(e) ==
  e.type = "suspect_closure_missing" \/ e.type = "culprit_evidence_chain_missing"

\* variant: the two if-blocks in the opposite order
repairGuardrailsOf_BFirst(report) ==
  LET g0 == <<>>
      g1 == IF (\E i \in 1..Len(report.errors) : isClusterB(report.errors[i]))
              THEN Append(Append(g0, GuardrailB1), GuardrailB2)
              ELSE g0
      g2 == IF (\E i \in 1..Len(report.errors) : isClusterA(report.errors[i]))
              THEN Append(Append(g1, GuardrailA1), GuardrailA2)
              ELSE g1
  IN  g2

\* const repairGuardrails = []; two conditional pairs of push
repairGuardrailsOf(report) ==
  LET g0 == <<>>
      g1 == IF (\E i \in 1..Len(report.errors) : isClusterA(report.errors[i]))
              THEN Append(Append(g0, GuardrailA1), GuardrailA2)
              ELSE g0
      g2 == IF (\E i \in 1..Len(report.errors) : isClusterB(report.errors[i]))
              THEN Append(Append(g1, GuardrailB1), GuardrailB2)
              ELSE g1
  IN  g2

\* variant: the message is put at the front of the log
push_Front(log, msg) == <<msg>> \o log

\* Array.prototype.push on a log of messages
push(log, msg) == Append(log, msg)

WarnGaps == "Story validation detected coverage gaps; running one prose repair retry"

WarnImproved == "Prose repair retry improved validation outcomes"

WarnNotImproved == "Prose repair retry did not improve validation; continuing with original"

\* reportProgress("prose", ..., 95)
ProgressRegenerating ==
  [stage |-> "prose",
   message |-> "Regenerating prose to repair validation coverage gaps",
   percent |-> 95]

\* variant: the request is built without the guardrails
ProseRequest_NoGuardrails(guardrails) == [qualityGuardrails |-> <<>>]

\* the request object handed to generateProse; the forwarded generation
\* context (caseData, outline, cast, ...) is not modelled
ProseRequest(guardrails) == [qualityGuardrails |-> guardrails]

\* structural normaliser: raw generation output -> Prose {chapters}
sanitizeProseResult(raw) == [chapters |-> raw.chapters]

\* paragraphs.join("\n\n")
RECURSIVE join(_, _)
join(ps, sep) ==
  IF Len(ps) = 0 THEN ""
  ELSE IF Len(ps) = 1 THEN ps[1]
  ELSE ps[1] \o sep \o join(Tail(ps), sep)

\* variant: the story is built from the prose held before line 80
proseForRevalidation_Stale(before, after) == before

\* prose.chapters at line 88 is read after the assignment of line 80
proseForRevalidation(before, after) == after

\* variant: scenes numbered from the array index itself
repairedStoryOf_ZeroBased(p) ==
  [scenes |-> [idx \in 1..Len(p.chapters) |->
                 [number |-> idx - 1,
                  title |-> p.chapters[idx].title,
                  text |-> join(p.chapters[idx].paragraphs, "\n\n")]]]

repairedStoryOf(p) ==
  [scenes |-> [idx \in 1..Len(p.chapters) |->
                 [number |-> idx,
                  title |-> p.chapters[idx].title,
                  text |-> join(p.chapters[idx].paragraphs, "\n\n")]]]

\* variant: the critical-count comparison left out
improvedOf_NoCritical(original, repaired) ==
  \/ Len(repaired.errors) < Len(original.errors)
  \/ repaired.status = "passed"

improvedOf(original, repaired) ==
  \/ repaired.summary.critical < original.summary.critical
  \/ Len(repaired.errors) < Len(original.errors)
  \/ repaired.status = "passed"

\* variant: the repaired report is adopted unconditionally
adoptReport_Always(imp, current, repaired) == repaired

\* if (improved) validationReport = repairedReport
adoptReport(imp, current, repaired) == IF imp THEN repaired ELSE current

outcomeWarning(imp) == IF imp THEN WarnImproved ELSE WarnNotImproved

\* variant: a rejected repair goes round again
outcomeState_Retry(imp) == IF imp THEN "Adopted" ELSE "RepairAttempted"

\* variant: a rejected repair stays in the intermediate state for good
outcomeState_NoExit(imp) == IF imp THEN "Adopted" ELSE "Revalidated"

outcomeState(imp) == IF imp THEN "Adopted" ELSE "Rejected"

\* `Story validation: failed - ${validationReport.summary.critical} ...`
WarnValidationFailed(critical) ==
  "Story validation: failed - " \o ToString(critical) \o " critical errors (non-blocking)"

\* `Story validation failed: ${validationReport.summary.critical} critical errors`
ErrValidationFailed(critical) ==
  "Story validation failed: " \o ToString(critical) \o " critical errors"

ProgressFlagged ==
  [stage |-> "validation",
   message |-> "Story validation flagged issues (non-blocking)",
   percent |-> 98]

ProgressFailed ==
  [stage |-> "validation", message |-> "Story validation failed", percent |-> 98]

\* variant: the else-branch as it was before Fix 1 (old1)
failedBranch_Old1(w, e, critical) ==
  [warnings |-> w,
   errors |-> push(e, ErrValidationFailed(critical)),
   progress |-> ProgressFailed]

\* the validation-failed else-branch after Fix 1 (new1)
failedBranch(w, e, critical) ==
  [warnings |-> push(w, WarnValidationFailed(critical)),
   errors |-> e,
   progress |-> ProgressFlagged]

(* --------------------------- the patch script -------------------------- *)

\* A text (the str c, a pattern, a replacement) is held as the sequence of
\* its lines, the pieces between its "\n"; the empty text is <<>>.

\* (the template literal's backquotes are written as ' here)
LErrorsPush ==
  "      errors.push('Story validation failed: ${validationReport.summary.critical} critical errors');"

LProgressFailed ==
  "      reportProgress(\"validation\", \"Story validation failed\", 98);"

LWarningsPush ==
  "      warnings.push('Story validation: failed - ${validationReport.summary.critical} critical errors (non-blocking)');"

LProgressFlagged ==
  "      reportProgress(\"validation\", \"Story validation flagged issues (non-blocking)\", 98);"

LValidate ==
  "    let validationReport = await validationPipeline.validate(storyForValidation, cml);"

LDuration ==
  "    agentDurations[\"validation\"] = Date.now() - validationStart;"

LBlank == ""

LLogComment == "    // Log validation results"

LRetryBegin ==
  "    // ---------- Prose repair retry for recoverable validation gaps ----------"

\* any other line of the file
LOther == "    const validationStart = Date.now();"

old1 == <<LErrorsPush, LProgressFailed>>

new1 == <<LWarningsPush, LProgressFlagged>>

anchor == <<LValidate, LDuration, LBlank, LLogComment>>

\* lines 23-112 of the script: the lines of repair_block between the anchor's
\* first three lines and its last two
RetryLines ==
  <<"    // ---------- Prose repair retry for recoverable validation gaps ----------",
    "    const recoverableErrorTypes = new Set([",
    "      \"missing_discriminating_test\",",
    "      \"cml_test_not_realized\",",
    "      \"suspect_closure_missing\",",
    "      \"culprit_evidence_chain_missing\",",
    "    ]);",
    "    const hasRecoverableGaps = validationReport.errors.some((e) => recoverableErrorTypes.has(e.type));",
    "",
    "    if (hasRecoverableGaps) {",
    "      const repairGuardrails: string[] = [];",
    "",
    "      if (",
    "        validationReport.errors.some(",
    "          (e) => e.type === \"missing_discriminating_test\" || e.type === \"cml_test_not_realized\",",
    "        )",
    "      ) {",
    "        repairGuardrails.push(",
    "          \"Include a clear discriminating test scene where multiple plausible suspects are explicitly evaluated and at least one suspect is ruled out using on-page evidence.\",",
    "        );",
    "        repairGuardrails.push(",
    "          \"Use explicit elimination language such as 'ruled out', 'cannot be the culprit', or 'excluded by the timeline/evidence'.\",",
    "        );",
    "      }",
    "",
    "      if (",
    "        validationReport.errors.some(",
    "          (e) => e.type === \"suspect_closure_missing\" || e.type === \"culprit_evidence_chain_missing\",",
    "        )",
    "      ) {",
    "        repairGuardrails.push(",
    "          \"In the solution sequence, close every major suspect thread with explicit reasoning and evidence-backed elimination.\",",
    "        );",
    "        repairGuardrails.push(",
    "          \"Provide a complete culprit evidence chain from clue discovery to final proof without relying on off-page information.\",",
    "        );",
    "      }",
    "",
    "      if (repairGuardrails.length > 0) {",
    "        warnings.push(\"Story validation detected coverage gaps; running one prose repair retry\");",
    "        reportProgress(\"prose\", \"Regenerating prose to repair validation coverage gaps\", 95);",
    "",
    "        const proseRepairStart = Date.now();",
    "        const repairedProse = await generateProse(client, {",
    "          caseData: cml,",
    "          outline: narrative,",
    "          cast: cast.cast,",
    "          characterProfiles: characterProfiles,",
    "          locationProfiles: locationProfiles,",
    "          temporalContext: temporalContext,",
    "          targetLength: inputs.targetLength,",
    "          narrativeStyle: inputs.narrativeStyle,",
    "          qualityGuardrails: repairGuardrails,",
    "          runId,",
    "          projectId: projectId || \"\",",
    "        });",
    "",
    "        prose = sanitizeProseResult(repairedProse);",
    "        agentCosts[\"agent9_prose\"] = (agentCosts[\"agent9_prose\"] || 0) + repairedProse.cost;",
    "        agentDurations[\"agent9_prose\"] = (agentDurations[\"agent9_prose\"] || 0) + (Date.now() - proseRepairStart);",
    "",
    "        // Re-validate repaired prose",
    "        const repairedStory = {",
    "          id: runId,",
    "          projectId: projectId || runId,",
    "          scenes: prose.chapters.map((ch: any, idx: number) => ({",
    "            number: idx + 1,",
    "            title: ch.title,",
    "            text: ch.paragraphs.join(\"\\n\\n\"),",
    "          })),",
    "        };",
    "",
    "        const retryValStart = Date.now();",
    "        const repairedReport = await validationPipeline.validate(repairedStory, cml);",
    "        agentDurations[\"validation\"] = (agentDurations[\"validation\"] || 0) + (Date.now() - retryValStart);",
    "",
    "        const improved =",
    "          repairedReport.summary.critical < validationReport.summary.critical ||",
    "          repairedReport.errors.length < validationReport.errors.length ||",
    "          repairedReport.status === \"passed\";",
    "",
    "        if (improved) {",
    "          validationReport = repairedReport;",
    "          warnings.push(\"Prose repair retry improved validation outcomes\");",
    "        } else {",
    "          warnings.push(\"Prose repair retry did not improve validation; continuing with original\");",
    "        }",
    "      }",
    "    }",
    "    // ---------- End prose repair retry ----------">>

\* variant: the retry block is put in front of the anchor, which is kept
repair_block_BeforeAnchor ==
  RetryLines \o <<LBlank, LValidate, LDuration, LBlank, LLogComment>>

repair_block ==
  <<LValidate, LDuration, LBlank>> \o RetryLines \o <<LBlank, LLogComment>>

\* s[i..] and s[..i] of a str
startsWith(s, prefix) ==
  Len(s) >= Len(prefix) /\ SubSeq(s, 1, Len(prefix)) = prefix

endsWith(s, suffix) ==
  Len(s) >= Len(suffix) /\ SubSeq(s, Len(s) - Len(suffix) + 1, Len(s)) = suffix

\* pat occurs in the line s from column j on
occursInLine(s, pat, j) ==
  j + Len(pat) - 1 <= Len(s) /\ SubSeq(s, j, j + Len(pat) - 1) = pat

\* pat, of two lines or more, occurs in text with its first line the end of
\* line i: the pattern's inner lines are whole lines of the text, its first
\* line ends one and its last line begins one
matchAt(text, pat, i) ==
  LET n == Len(pat)
  IN  /\ i + n - 1 <= Len(text)
      /\ \A k \in 2..(n - 1) : text[i + k - 1] = pat[k]
      /\ endsWith(text[i], pat[1])
      /\ startsWith(text[i + n - 1], pat[n])

\* pat in text (a substring test; pat is not empty)
contains(text, pat) ==
  IF Len(pat) = 1
    THEN \E i \in 1..Len(text) : \E j \in 1..Len(text[i]) :
           occursInLine(text[i], pat[1], j)
    ELSE \E i \in 1..Len(text) : matchAt(text, pat, i)

\* a \o b of two texts: the last line of a runs on into the first line of b
glue(a, b) ==
  IF a = <<>> THEN b
  ELSE IF b = <<>> THEN a
  ELSE SubSeq(a, 1, Len(a) - 1) \o <<a[Len(a)] \o b[1]>> \o Tail(b)

\* the least element of a non-empty set of numbers
least(S) == CHOOSE i \in S : \A j \in S : i <= j

\* text.replace(old, new): every non-overlapping occurrence, left to right
\* (old is not empty)
RECURSIVE replace(_, _, _)
replace(text, old, new) ==
  IF Len(old) = 1
    THEN LET cols(i) == {j \in 1..Len(text[i]) : occursInLine(text[i], old[1], j)}
             lines == {i \in 1..Len(text) : cols(i) # {}}
         IN  IF lines = {} THEN text
             ELSE LET i == least(lines)
                      j == least(cols(i))
                      pre == SubSeq(text[i], 1, j - 1)
                      post == SubSeq(text[i], j + Len(old[1]), Len(text[i]))
                  IN  SubSeq(text, 1, i - 1)
                        \o glue(glue(<<pre>>, new),
                                replace(<<post>> \o SubSeq(text, i + 1, Len(text)),
                                        old, new))
    ELSE LET starts == {i \in 1..Len(text) : matchAt(text, old, i)}
         IN  IF starts = {} THEN text
             ELSE LET i == least(starts)
                      last == i + Len(old) - 1
                      pre == SubSeq(text[i], 1, Len(text[i]) - Len(old[1]))
                      post == SubSeq(text[last], Len(old[Len(old)]) + 1,
                                     Len(text[last]))
                  IN  SubSeq(text, 1, i - 1)
                        \o glue(glue(<<pre>>, new),
                                replace(<<post>> \o SubSeq(text, last + 1, Len(text)),
                                        old, new))

\* pieces a file is put together from: the two patterns, parts of them, the
\* patterns inside longer lines, and an unrelated line
Segments ==
  {anchor, old1, <<LOther>>, <<LValidate, LDuration>>, <<LBlank, LLogComment>>,
   <<LErrorsPush>>,
   <<"  " \o LErrorsPush, LProgressFailed \o " // note">>,
   <<"x" \o LValidate, LDuration, LBlank, LLogComment \o " here">>}

RECURSIVE concat(_)
concat(segs) == IF segs = <<>> THEN <<>> ELSE segs[1] \o concat(Tail(segs))

PatchTexts == {concat(segs) : segs \in SeqsUpTo(Segments, MaxSegments)}

\* line endings: of the file on disk, and os.linesep
LineEndings == {"\n", "\r\n"}

\* p.stat().st_size of a file of ASCII lines: the characters of the lines and
\* one line ending between two lines (added up by halves)
RECURSIVE sizeOf(_, _)
sizeOf(lines, eol) ==
  IF lines = <<>> THEN 0
  ELSE IF Len(lines) = 1 THEN Len(lines[1])
  ELSE LET h == Len(lines) \div 2
       IN  sizeOf(SubSeq(lines, 1, h), eol) + Len(eol)
             + sizeOf(SubSeq(lines, h + 1, Len(lines)), eol)

(* ------------------------------- state -------------------------------- *)

VARIABLES
  pc,                 \* position of the run in the block
  validationReport,   \* let validationReport: the current report
  prose,              \* the pipeline's working prose variable
  warnings,           \* the warnings log
  agentCosts,
  agentDurations,
  hasRecoverableGaps, \* const of line 30
  repairGuardrails,   \* const of line 33 (empty before it is built)
  proseRequest,       \* argument of the generateProse call in flight / made
  repairedProse,      \* result of generateProse
  repairedStory,      \* argument of the second validate call
  repairedReport,     \* result of the second validate call
  improved,           \* const of line 99
  generateCalls,      \* number of generateProse calls made by the block
  revalidateCalls,    \* number of validate calls made by the block
  failedCall,         \* the awaited call that rejected, "none" if none
  entry,              \* the run's values on entry to the block
  errors,             \* the run's errors list
  progress,           \* last reportProgress(stage, message, percent)
  proseRepairElapsed, \* Date.now() - proseRepairStart
  retryValElapsed     \* Date.now() - retryValStart

\* the patch script's state
VARIABLES
  file,               \* mystery-orchestrator.ts on disk: [lines, eol]
  linesep,            \* os.linesep of the platform the script runs on
  c,                  \* the text held by the script, a sequence of lines
  ppc,                \* position of the script
  printed,            \* what the script has printed
  runs                \* one record per application of the script

patchVars == <<file, linesep, c, ppc, printed, runs>>

vars ==
  <<pc, validationReport, prose, warnings, agentCosts, agentDurations,
    hasRecoverableGaps, repairGuardrails, proseRequest, repairedProse,
    repairedStory, repairedReport, improved, generateCalls, revalidateCalls,
    failedCall, entry, errors, progress, proseRepairElapsed, retryValElapsed,
    patchVars>>

NoValue == [none |-> TRUE]

\* the script is not running
PatchIdle ==
  /\ file = NoValue
  /\ linesep = "\n"
  /\ c = <<>>
  /\ ppc = "idle"
  /\ printed = <<>>
  /\ runs = <<>>

\* State right after lines 20-21: the first validate call has returned and
\* its duration has been stored.
Init ==
  /\ pc = "Validated"
  /\ validationReport \in ValidationReports
  /\ prose \in InitialProses
  /\ \E ctx \in RunContexts :
       /\ warnings = ctx.warnings
       /\ errors = ctx.errors
       /\ agentCosts = ctx.agentCosts
       /\ agentDurations = ctx.agentDurations
  /\ hasRecoverableGaps = FALSE
  /\ repairGuardrails = <<>>
  /\ proseRequest = NoValue
  /\ repairedProse = NoValue
  /\ repairedStory = NoValue
  /\ repairedReport = NoValue
  /\ improved = FALSE
  /\ generateCalls = 0
  /\ revalidateCalls = 0
  /\ failedCall = "none"
  /\ progress = NoValue
  /\ proseRepairElapsed = 0
  /\ retryValElapsed = 0
  /\ entry = [validationReport |-> validationReport, prose |-> prose,
              warnings |-> warnings, errors |-> errors,
              agentCosts |-> agentCosts, agentDurations |-> agentDurations]
  /\ PatchIdle

(* ------------------------------ actions ------------------------------- *)

\* lines 24-78: classify, build the guardrails, and either leave the block
\* or log the gap warning and call generateProse
GapCheck ==
  /\ pc = "Validated"
  /\ LET has == hasRecoverableGapsOf(validationReport)
         g == IF has THEN repairGuardrailsOf(validationReport) ELSE <<>>
     IN  /\ hasRecoverableGaps' = has
         /\ repairGuardrails' = g
         /\ IF ~has
              THEN /\ pc' = "NoRepairNeeded"
                   /\ UNCHANGED <<warnings, progress, proseRequest, generateCalls>>
              ELSE IF Len(g) > 0
                THEN /\ warnings' = push(warnings, WarnGaps)
                     /\ progress' = ProgressRegenerating
                     /\ proseRequest' = ProseRequest(g)
                     /\ generateCalls' = generateCalls + 1
                     /\ pc' = "RepairAttempted"
                ELSE /\ pc' = "RepairSkipped"
                     /\ UNCHANGED <<warnings, progress, proseRequest, generateCalls>>
  /\ UNCHANGED <<validationReport, prose, agentCosts, agentDurations,
                 repairedProse, repairedStory, repairedReport, improved,
                 revalidateCalls, failedCall, entry, errors,
                 proseRepairElapsed, retryValElapsed, patchVars>>

\* lines 66-96: generateProse resolves; sanitize, account, build the story
\* and call validate
GenerateReturns ==
  /\ pc = "RepairAttempted"
  /\ \E raw \in RawProses, dt \in Elapsed :
       /\ repairedProse' = raw
       /\ proseRepairElapsed' = dt
       /\ prose' = sanitizeProseResult(raw)
       /\ agentCosts' = accumulate(agentCosts, "agent9_prose", raw.cost)
       /\ agentDurations' = accumulate(agentDurations, "agent9_prose", dt)
  /\ repairedStory' = repairedStoryOf(proseForRevalidation(prose, prose'))
  /\ revalidateCalls' = revalidateCalls + 1
  /\ pc' = "Revalidating"
  /\ UNCHANGED <<validationReport, warnings, hasRecoverableGaps,
                 repairGuardrails, proseRequest, repairedReport, improved,
                 generateCalls, failedCall, entry, errors, progress,
                 retryValElapsed, patchVars>>

\* variant: the rejection is caught and treated as "did not improve"
GenerateFails_Swallowed ==
  /\ pc = "RepairAttempted"
  /\ failedCall' = "generateProse"
  /\ warnings' = push(warnings, WarnNotImproved)
  /\ pc' = "Rejected"
  /\ UNCHANGED <<validationReport, prose, agentCosts, agentDurations,
                 hasRecoverableGaps, repairGuardrails, proseRequest,
                 repairedProse, repairedStory, repairedReport, improved,
                 generateCalls, revalidateCalls, entry, errors, progress,
                 proseRepairElapsed, retryValElapsed, patchVars>>

\* line 66: generateProse rejects; nothing in the block catches it
GenerateFails ==
  /\ pc = "RepairAttempted"
  /\ failedCall' = "generateProse"
  /\ pc' = "Failed"
  /\ UNCHANGED <<validationReport, prose, warnings, agentCosts, agentDurations,
                 hasRecoverableGaps, repairGuardrails, proseRequest,
                 repairedProse, repairedStory, repairedReport, improved,
                 generateCalls, revalidateCalls, entry, errors, progress,
                 proseRepairElapsed, retryValElapsed, patchVars>>

\* lines 96-109: validate resolves; account, compare, adopt or reject
ValidateReturns ==
  /\ pc = "Revalidating"
  /\ \E r \in RevalidationReports, dt \in Elapsed :
       /\ repairedReport' = r
       /\ retryValElapsed' = dt
       /\ agentDurations' = accumulate(agentDurations, "validation", dt)
  /\ improved' = improvedOf(validationReport, repairedReport')
  /\ validationReport' = adoptReport(improved', validationReport, repairedReport')
  /\ warnings' = push(warnings, outcomeWarning(improved'))
  /\ pc' = outcomeState(improved')
  /\ UNCHANGED <<prose, agentCosts, hasRecoverableGaps, repairGuardrails,
                 proseRequest, repairedProse, repairedStory, generateCalls,
                 revalidateCalls, failedCall, entry, errors, progress,
                 proseRepairElapsed, patchVars>>

\* line 96: validate rejects; nothing in the block catches it
ValidateFails ==
  /\ pc = "Revalidating"
  /\ failedCall' = "validate"
  /\ pc' = "Failed"
  /\ UNCHANGED <<validationReport, prose, warnings, agentCosts, agentDurations,
                 hasRecoverableGaps, repairGuardrails, proseRequest,
                 repairedProse, repairedStory, repairedReport, improved,
                 generateCalls, revalidateCalls, entry, errors, progress,
                 proseRepairElapsed, retryValElapsed, patchVars>>

\* new1: after the block, "Log validation results" reaches the
\* validation-failed else-branch.  The condition that selects the branch is
\* not part of the patch, so the branch may be taken after any outcome.
LogValidationFailed ==
  /\ pc \in {"NoRepairNeeded", "RepairSkipped", "Adopted", "Rejected"}
  /\ LET out == failedBranch(warnings, errors, validationReport.summary.critical)
     IN  /\ warnings' = out.warnings
         /\ errors' = out.errors
         /\ progress' = out.progress
  /\ pc' = "Logged"
  /\ UNCHANGED <<validationReport, prose, agentCosts, agentDurations,
                 hasRecoverableGaps, repairGuardrails, proseRequest,
                 repairedProse, repairedStory, repairedReport, improved,
                 generateCalls, revalidateCalls, failedCall, entry,
                 proseRepairElapsed, retryValElapsed, patchVars>>

Next ==
  \/ GapCheck
  \/ LogValidationFailed
  \/ GenerateReturns
  \/ GenerateFails
  \/ ValidateReturns
  \/ ValidateFails

Spec == Init /\ [][Next]_vars

\* The run variables outside the block, for the specifications that
\* exercise one piece of the patch on its own.
RunIdle ==
  /\ validationReport = NoValue
  /\ prose \in InitialProses
  /\ warnings = <<>>
  /\ errors = <<>>
  /\ agentCosts = EmptyMap
  /\ agentDurations = EmptyMap
  /\ hasRecoverableGaps = FALSE
  /\ repairGuardrails = <<>>
  /\ proseRequest = NoValue
  /\ repairedStory = NoValue
  /\ repairedReport = NoValue
  /\ improved = FALSE
  /\ generateCalls = 0
  /\ revalidateCalls = 0
  /\ failedCall = "none"
  /\ progress = NoValue
  /\ proseRepairElapsed = 0
  /\ retryValElapsed = 0
  /\ entry = NoValue

\* lines 80-93 on their own: generateProse has resolved with some prose
StoryInit ==
  /\ pc = "StoryInput"
  /\ repairedProse \in StoryRawProses
  /\ RunIdle
  /\ PatchIdle

\* lines 80-93: sanitize the prose, add its cost and the elapsed time to the
\* counters, and project the prose to a Story
StoryBuild ==
  /\ pc = "StoryInput"
  /\ prose' = sanitizeProseResult(repairedProse)
  /\ agentCosts' = accumulate(agentCosts, "agent9_prose", repairedProse.cost)
  /\ agentDurations' =
       accumulate(agentDurations, "agent9_prose", proseRepairElapsed)
  /\ repairedStory' = repairedStoryOf(proseForRevalidation(prose, prose'))
  /\ pc' = "StoryBuilt"
  /\ UNCHANGED <<validationReport, warnings,
                 hasRecoverableGaps, repairGuardrails, proseRequest,
                 repairedProse, repairedReport, improved, generateCalls,
                 revalidateCalls, failedCall, entry, errors, progress,
                 proseRepairElapsed, retryValElapsed, patchVars>>

StoryNext == StoryBuild

StorySpec == StoryInit /\ [][StoryNext]_vars

(* ---------------------- the patch script's steps ---------------------- *)

PatchInit ==
  /\ pc = "PatchScript"
  /\ repairedProse = NoValue
  /\ RunIdle
  /\ file \in [lines : PatchTexts, eol : LineEndings]
  /\ linesep \in LineEndings
  /\ c = <<>>
  /\ ppc = "start"
  /\ printed = <<>>
  /\ runs = <<>>

runVars ==
  <<pc, validationReport, prose, warnings, agentCosts, agentDurations,
    hasRecoverableGaps, repairGuardrails, proseRequest, repairedProse,
    repairedStory, repairedReport, improved, generateCalls, revalidateCalls,
    failedCall, entry, errors, progress, proseRepairElapsed, retryValElapsed>>

\* r with field f of its last record set to v
setLast(r, f, v) == [r EXCEPT ![Len(r)] = [@ EXCEPT ![f] = v]]

\* lines 4-5: the script is started (again) and reads the file; read_text
\* turns every line ending into "\n"
PatchRead ==
  /\ \/ ppc = "start"
     \/ ppc = "done" /\ Len(runs) < MaxApplications
  /\ c' = file.lines
  /\ printed' = <<>>
  /\ runs' = Append(runs, [read |-> file.lines, fix1 |-> FALSE, fix2 |-> FALSE,
                           wrote |-> NoValue])
  /\ ppc' = "fix1"
  /\ UNCHANGED <<file, linesep, runVars>>

\* lines 11-15
PatchFix1 ==
  /\ ppc = "fix1"
  /\ IF contains(c, old1)
       THEN /\ c' = replace(c, old1, new1)
            /\ printed' = Append(printed, "Fix 1 applied: errors.push -> warnings.push")
            /\ runs' = setLast(runs, "fix1", TRUE)
       ELSE /\ printed' = Append(printed, "Fix 1: pattern not found!")
            /\ UNCHANGED <<c, runs>>
  /\ ppc' = "fix2"
  /\ UNCHANGED <<file, linesep, runVars>>

\* lines 116-120
PatchFix2 ==
  /\ ppc = "fix2"
  /\ IF contains(c, anchor)
       THEN /\ c' = replace(c, anchor, repair_block)
            /\ printed' = Append(printed, "Fix 2 applied: prose repair retry block inserted")
            /\ runs' = setLast(runs, "fix2", TRUE)
       ELSE /\ printed' = Append(printed, "Fix 2: anchor not found!")
            /\ UNCHANGED <<c, runs>>
  /\ ppc' = "write"
  /\ UNCHANGED <<file, linesep, runVars>>

\* lines 122-124: write_text ends every line with os.linesep
PatchWrite ==
  /\ ppc = "write"
  /\ file' = [lines |-> c, eol |-> linesep]
  /\ printed' = Append(Append(printed, "File written successfully"),
                       "File size: " \o ToString(sizeOf(c, linesep)))
  /\ runs' = setLast(runs, "wrote", file')
  /\ ppc' = "done"
  /\ UNCHANGED <<c, linesep, runVars>>

PatchNext ==
  \/ PatchRead
  \/ PatchFix1
  \/ PatchFix2
  \/ PatchWrite

PatchSpec == PatchInit /\ [][PatchNext]_vars

\* The synchronous code between two awaits always runs on, and each awaited
\* call eventually resolves or rejects.
LiveSpec ==
  /\ Init
  /\ [][Next]_vars
  /\ WF_vars(GapCheck)
  /\ WF_vars(GenerateReturns \/ GenerateFails)
  /\ WF_vars(ValidateReturns \/ ValidateFails)

(* ------------------------------ claims -------------------------------- *)

Terminal == {"NoRepairNeeded", "Adopted", "Rejected"}

Compared == {"Adopted", "Rejected"}

count(s, m) == Cardinality({i \in 1..Len(s) : s[i] = m})

entryReport == entry.validationReport

\* C1: in every terminal state the current (prose, report) pair is the
\* original pair or the repaired pair; when the repaired report is not an
\* improvement both are the original ones.
C1_PairReplacedTogether ==
  pc \in Terminal =>
    /\ \/ /\ prose = entry.prose
          /\ validationReport = entryReport
       \/ /\ pc \in Compared
          /\ prose = sanitizeProseResult(repairedProse)
          /\ validationReport = repairedReport
    /\ (pc = "Rejected" => prose = entry.prose /\ validationReport = entryReport)

\* C2: generateProse is called at most once and the re-validation at most
\* once; no step leads from Revalidating, Adopted or Rejected back to
\* RepairAttempted.
C2_AtMostOneRepairCycle ==
  [][/\ generateCalls' <= 1
     /\ revalidateCalls' <= 1
     /\ (pc \in {"Revalidating", "Adopted", "Rejected"} => pc' # "RepairAttempted")]_vars

C2_Witness ==
  pc \in Compared /\ generateCalls = 1 /\ revalidateCalls = 1

\* C3: after a completed repair attempt the current report is the repaired
\* one if the repair is an improvement and the original one otherwise, and
\* exactly one outcome message was appended: "improved" when adopted,
\* "did not improve" when rejected.
C3_AdoptedIffImproved ==
  pc \in Compared =>
    LET imp == improvedOf(entryReport, repairedReport)
    IN  /\ imp => validationReport = repairedReport
        /\ ~imp => validationReport = entryReport
        /\ repairedReport # entryReport =>
             (validationReport = repairedReport <=> imp)
        /\ Len(warnings) = Len(entry.warnings) + 2
        /\ warnings[Len(warnings)] = IF imp THEN WarnImproved ELSE WarnNotImproved
        /\ count(warnings, WarnImproved) = IF imp THEN 1 ELSE 0
        /\ count(warnings, WarnNotImproved) = IF imp THEN 0 ELSE 1

C3_Witness ==
  /\ pc = "Rejected"
  /\ repairedReport # entryReport
  /\ validationReport = entryReport
  /\ count(warnings, WarnNotImproved) = 1

\* C4: improved is true iff the repaired report has fewer criticals, or
\* fewer errors, or status passed; each alone suffices, and with equal
\* criticals, equal error counts and a status other than passed it is false.
C4_ImprovementRule ==
  pc \in Compared =>
    /\ improved <=>
         \/ repairedReport.summary.critical < entryReport.summary.critical
         \/ Len(repairedReport.errors) < Len(entryReport.errors)
         \/ repairedReport.status = "passed"
    /\ ( /\ repairedReport.summary.critical = entryReport.summary.critical
         /\ Len(repairedReport.errors) = Len(entryReport.errors)
         /\ repairedReport.status # "passed" ) => ~improved

C4_Witness ==
  /\ pc = "Adopted"
  /\ improved
  /\ repairedReport.summary.critical < entryReport.summary.critical
  /\ Len(repairedReport.errors) > Len(entryReport.errors)
  /\ repairedReport.status # "passed"

\* C5: the classification is true iff some error of the report has one of
\* the four recoverable types; it is false for an empty error list and for
\* a list of other types only.
C5_ClassifyIffRecoverablePresent ==
  pc # "Validated" =>
    /\ hasRecoverableGaps <=>
         \E i \in 1..Len(entryReport.errors) :
           entryReport.errors[i].type \in
             {"missing_discriminating_test", "cml_test_not_realized",
              "suspect_closure_missing", "culprit_evidence_chain_missing"}
    /\ entryReport.errors = <<>> => ~hasRecoverableGaps

C5_Witness ==
  /\ pc # "Validated"
  /\ hasRecoverableGaps
  /\ Len(entryReport.errors) = 2
  /\ entryReport.errors[1].type = "unrelated_format_issue"
  /\ entryReport.errors[2].type = "culprit_evidence_chain_missing"

noRecoverableOnEntry ==
  \A i \in 1..Len(entryReport.errors) :
    entryReport.errors[i].type \notin
      {"missing_discriminating_test", "cml_test_not_realized",
       "suspect_closure_missing", "culprit_evidence_chain_missing"}

\* C6: when the original report has no error of a recoverable type the run
\* goes to NoRepairNeeded with no generateProse call, no second validate
\* call, and prose, report, warnings and counters as they were on entry
\* (the log grows only later, by the logging that follows the block).
C6_NoRepairLeavesAllUnchanged ==
  (pc # "Validated" /\ noRecoverableOnEntry) =>
    /\ pc \in {"NoRepairNeeded", "Logged"}
    /\ generateCalls = 0
    /\ revalidateCalls = 0
    /\ prose = entry.prose
    /\ validationReport = entryReport
    /\ pc = "NoRepairNeeded" => warnings = entry.warnings
    /\ agentCosts = entry.agentCosts
    /\ agentDurations = entry.agentDurations

C6_Witness ==
  /\ pc = "NoRepairNeeded"
  /\ Len(entryReport.errors) > 0
  /\ Len(entry.warnings) > 0

hasTypeOnEntry(types) ==
  \E i \in 1..Len(entryReport.errors) : entryReport.errors[i].type \in types

\* C7: the guardrail list is the two Cluster-A guardrails iff a Cluster-A
\* error is present, followed by the two Cluster-B guardrails iff a
\* Cluster-B error is present: length 0, 2 or 4, A before B, no repeats.
C7_GuardrailsByCluster ==
  pc # "Validated" =>
    /\ repairGuardrails =
         (IF hasTypeOnEntry({"missing_discriminating_test", "cml_test_not_realized"})
            THEN <<GuardrailA1, GuardrailA2>> ELSE <<>>)
         \o
         (IF hasTypeOnEntry({"suspect_closure_missing", "culprit_evidence_chain_missing"})
            THEN <<GuardrailB1, GuardrailB2>> ELSE <<>>)
    /\ Len(repairGuardrails) \in {0, 2, 4}
    /\ \A i, j \in 1..Len(repairGuardrails) :
         repairGuardrails[i] = repairGuardrails[j] => i = j

C7_Witness ==
  /\ pc # "Validated"
  /\ Len(entryReport.errors) = 2
  /\ entryReport.errors[1].type = "culprit_evidence_chain_missing"
  /\ entryReport.errors[2].type = "cml_test_not_realized"
  /\ repairGuardrails = <<GuardrailA1, GuardrailA2, GuardrailB1, GuardrailB2>>

noOutcomeWarning ==
  count(warnings, WarnImproved) = 0 /\ count(warnings, WarnNotImproved) = 0

\* C8: a failing generateProse call is fatal to the run: prose and report
\* are the original ones, validate is not called again, and no outcome
\* warning is appended.
C8_GenerationFailurePropagates ==
  failedCall = "generateProse" =>
    /\ pc = "Failed"
    /\ prose = entry.prose
    /\ validationReport = entryReport
    /\ revalidateCalls = 0
    /\ noOutcomeWarning

C8_Witness ==
  /\ failedCall = "generateProse"
  /\ pc = "Failed"
  /\ generateCalls = 1
  /\ count(warnings, WarnGaps) = 1

\* C9: a failing re-validation call after a successful regeneration is
\* fatal to the run and leaves prose and report the original ones, with no
\* outcome warning appended.
C9_RevalidationFailureLeavesOriginal ==
  failedCall = "validate" =>
    /\ pc = "Failed"
    /\ prose = entry.prose
    /\ validationReport = entryReport
    /\ noOutcomeWarning

\* C10: generateProse is only ever called with a non-empty qualityGuardrails
\* list, the list that was built.
C10_NeverGenerateWithoutGuardrails ==
  generateCalls > 0 =>
    /\ Len(repairGuardrails) > 0
    /\ proseRequest.qualityGuardrails = repairGuardrails
    /\ Len(proseRequest.qualityGuardrails) > 0

C10_Witness ==
  /\ pc = "RepairAttempted"
  /\ generateCalls = 1
  /\ Len(proseRequest.qualityGuardrails) = 2

isPrefix(s, t) == Len(s) <= Len(t) /\ SubSeq(t, 1, Len(s)) = s

\* the positions of message m in log s
positions(s, m) == {i \in 1..Len(s) : s[i] = m}

\* C12: the warnings log only grows at its end: at every step the old log
\* is a prefix of the new one, the "coverage gaps" message is appended by
\* the step that calls generateProse, and in a completed repair it comes
\* before the single outcome message.
C12_WarningsAppendOnlyInOrder ==
  [][/\ isPrefix(warnings, warnings')
     /\ generateCalls' > generateCalls =>
          warnings' = warnings \o <<WarnGaps>>
     /\ pc' \in Compared =>
          /\ Cardinality(positions(warnings', WarnGaps)) = 1
          /\ Cardinality(positions(warnings', WarnImproved)
                         \cup positions(warnings', WarnNotImproved)) = 1
          /\ \A i \in positions(warnings', WarnGaps) :
               \A j \in positions(warnings', WarnImproved)
                        \cup positions(warnings', WarnNotImproved) : i < j]_vars

C12_Witness ==
  /\ pc = "Adopted"
  /\ Len(entry.warnings) > 0
  /\ warnings = entry.warnings \o <<WarnGaps, WarnImproved>>

\* C14: no step changes the run's errors list, whatever the outcome of the
\* block, and a failed story validation is logged to warnings, not errors.
C14_ErrorsListUntouched ==
  [][/\ errors' = errors
     /\ pc' = "Logged" =>
          /\ Len(warnings') = Len(warnings) + 1
          /\ warnings'[Len(warnings')] =
               "Story validation: failed - "
                 \o ToString(validationReport.summary.critical)
                 \o " critical errors (non-blocking)"]_vars

C14_Witness ==
  /\ pc = "Logged"
  /\ improved
  /\ Len(errors) > 0
  /\ errors = entry.errors
  /\ warnings[Len(warnings)] = "Story validation: failed - 1 critical errors (non-blocking)"

\* C15: the two awaited calls run one after the other: validate is called
\* again only once generateProse has resolved, with the Story built from
\* the sanitized repaired prose, and the comparison is made only once the
\* second validate has resolved.
C15_SequentialAwaits ==
  /\ revalidateCalls > 0 =>
       /\ generateCalls = 1
       /\ repairedProse # NoValue
       /\ failedCall # "generateProse"
       /\ repairedStory = repairedStoryOf(sanitizeProseResult(repairedProse))
  /\ pc = "RepairAttempted" => revalidateCalls = 0 /\ repairedStory = NoValue
  /\ (pc \in Compared \/ improved \/ ~noOutcomeWarning) =>
       /\ revalidateCalls = 1
       /\ repairedReport # NoValue
       /\ failedCall = "none"
  /\ pc = "Revalidating" => repairedReport = NoValue /\ noOutcomeWarning

C15_Witness ==
  /\ pc = "Revalidating"
  /\ sanitizeProseResult(repairedProse) # entry.prose
  /\ repairedStory = repairedStoryOf(sanitizeProseResult(repairedProse))
  /\ repairedStory # repairedStoryOf(entry.prose)

preCost == IF "agent9_prose" \in DOMAIN entry.agentCosts
             THEN entry.agentCosts["agent9_prose"] ELSE 0

preProseDuration == IF "agent9_prose" \in DOMAIN entry.agentDurations
                      THEN entry.agentDurations["agent9_prose"] ELSE 0

preValidationDuration == IF "validation" \in DOMAIN entry.agentDurations
                           THEN entry.agentDurations["validation"] ELSE 0

\* C16: after a repair attempt each of the three counters is its value on
\* entry (0 when absent) plus the cost or elapsed time of the repair call,
\* hence never smaller than on entry, whether the repair is adopted or not.
C16_CountersAccumulate ==
  /\ pc \in {"Revalidating"} \cup Compared =>
       /\ agentCosts["agent9_prose"] = preCost + repairedProse.cost
       /\ agentDurations["agent9_prose"] = preProseDuration + proseRepairElapsed
       /\ agentCosts["agent9_prose"] >= preCost
       /\ agentDurations["agent9_prose"] >= preProseDuration
  /\ pc \in Compared =>
       /\ agentDurations["validation"] = preValidationDuration + retryValElapsed
       /\ agentDurations["validation"] >= preValidationDuration
  /\ pc = "Revalidating" => agentDurations["validation"] = preValidationDuration

C16_Witness ==
  /\ pc = "Rejected"
  /\ "agent9_prose" \in DOMAIN entry.agentCosts
  /\ repairedProse.cost = 1
  /\ agentCosts["agent9_prose"] = 2
  /\ agentDurations["agent9_prose"] = 3
  /\ agentDurations["validation"] = 4

\* C19: the two clusters cover the recoverable set exactly: a report is
\* classified recoverable iff its guardrail list is non-empty; whenever it
\* is, the list has at least two elements and generateProse is called, and
\* the branch that skips an empty list is never taken.
C19_ClustersCoverRecoverableSet ==
  /\ hasRecoverableGapsOf(entryReport) <=> Len(repairGuardrailsOf(entryReport)) > 0
  /\ pc # "Validated" =>
       /\ hasRecoverableGaps <=> Len(repairGuardrails) > 0
       /\ hasRecoverableGaps => Len(repairGuardrails) >= 2 /\ generateCalls = 1
  /\ pc # "RepairSkipped"

C19_Witness ==
  /\ pc = "RepairAttempted"
  /\ entryReport.errors = <<[type |-> "culprit_evidence_chain_missing"]>>
  /\ hasRecoverableGaps
  /\ Len(repairGuardrails) = 2
  /\ generateCalls = 1

oneCurrentPair ==
  /\ prose \in {entry.prose} \cup
       (IF repairedProse = NoValue THEN {} ELSE {sanitizeProseResult(repairedProse)})
  /\ validationReport \in {entryReport} \cup
       (IF repairedReport = NoValue THEN {} ELSE {repairedReport})

\* C17: when each awaited call eventually resolves or rejects, every run
\* eventually leaves the block in NoRepairNeeded, Adopted or Rejected, or in
\* the failed state, and in the first three it holds one prose and one
\* report.
C17_RunLeavesTheLoop ==
  <>(/\ pc \in Terminal \cup {"Failed"}
     /\ pc \in Terminal => oneCurrentPair)

C17_Witness ==
  /\ pc = "Adopted"
  /\ oneCurrentPair
  /\ prose # entry.prose
  /\ validationReport # entryReport

\* paragraphs in order, a blank line between consecutive ones
RECURSIVE blankLineJoined(_)
blankLineJoined(ps) ==
  IF ps = <<>> THEN ""
  ELSE IF Len(ps) = 1 THEN ps[1]
  ELSE blankLineJoined(SubSeq(ps, 1, Len(ps) - 1)) \o "\n\n" \o ps[Len(ps)]

\* C18: the Story built for re-validation has one scene per chapter of the
\* sanitized prose, in order: scene i has number i, the title of chapter i
\* and its paragraphs joined in order with a blank line between them.
C18_StoryIsPositionPreservingProjection ==
  repairedStory # NoValue =>
    LET chapters == sanitizeProseResult(repairedProse).chapters
        scenes == repairedStory.scenes
    IN  /\ Len(scenes) = Len(chapters)
        /\ \A i \in 1..Len(chapters) :
             /\ scenes[i].number = i
             /\ scenes[i].title = chapters[i].title
             /\ scenes[i].text = blankLineJoined(chapters[i].paragraphs)

C18_Witness ==
  /\ pc = "StoryBuilt"
  /\ Len(repairedStory.scenes) = 2
  /\ repairedStory.scenes[1] = [number |-> 1, title |-> "U", text |-> "a\n\nb"]
  /\ repairedStory.scenes[2] = [number |-> 2, title |-> "T", text |-> "b\n\n\n\na"]

\* the lines of text at which an occurrence of pat (two lines or more) starts
occurrences(text, pat) == {i \in 1..Len(text) : matchAt(text, pat, i)}

\* the retry blocks of text, counted by their first line
retryBlocks(text) == {i \in 1..Len(text) : text[i] = LRetryBegin}

\* C20: each fix is applied iff its own pattern occurs in the file, the
\* file is written in every application, after one application neither
\* pattern occurs, and a second application writes the same content as the
\* first, with no further retry block.
C20_PatchIdempotent ==
  ppc = "done" =>
    LET k == Len(runs)
    IN  /\ runs[k].fix1 <=> occurrences(runs[k].read, old1) # {}
        /\ runs[k].fix2 <=> occurrences(runs[k].read, anchor) # {}
        /\ runs[k].wrote # NoValue
        /\ occurrences(runs[k].wrote.lines, old1) = {}
        /\ occurrences(runs[k].wrote.lines, anchor) = {}
        /\ k > 1 =>
             /\ runs[k].wrote = runs[1].wrote
             /\ ~runs[k].fix1 /\ ~runs[k].fix2
             /\ Cardinality(retryBlocks(runs[k].wrote.lines))
                  = Cardinality(retryBlocks(runs[1].wrote.lines))

C20_Witness ==
  /\ ppc = "done"
  /\ Len(runs) = 2
  /\ runs[1].fix1 /\ runs[1].fix2
  /\ \E i \in 1..Len(runs[1].read) :
       /\ runs[1].read[i] # LErrorsPush
       /\ endsWith(runs[1].read[i], LErrorsPush)
  /\ Cardinality(retryBlocks(runs[1].wrote.lines)) = 1
  /\ runs[1].read # runs[1].wrote.lines
  /\ file = runs[1].wrote
  /\ printed = <<"Fix 1: pattern not found!", "Fix 2: anchor not found!",
                 "File written successfully",
                 "File size: " \o ToString(sizeOf(c, linesep))>>

=============================================================================
